---- MODULE Spec2Model ----
(***************************************************************************)
(* Model of core/tauri-utils/src/resources.rs: the path helpers            *)
(* (resource_relpath, normalize) and the lazy resource iterator            *)
(* ResourcePathsIter, run against a small fixed filesystem.                *)
(*                                                                         *)
(* A path (Path / PathBuf / pattern String) is the sequence of the         *)
(* segments of its text split at the separator, with a leading "/"         *)
(* segment when the text starts with the separator.                        *)
(***************************************************************************)
EXTENDS Integers, Sequences, FiniteSets, TLC

\* ------------------------------------------------------------------ bounds
MaxPatterns == 2
MaxMapLen == 2
MaxAfterEnd == 2

\* ------------------------------------------------------------- Option<T>
None == [some |-> FALSE]
Some(x) == [some |-> TRUE, v |-> x]

\* ------------------------------------------------- std::path::Components
VARIABLE windows   \* whether the build targets Windows (drive prefixes exist)

\* The drive specifications a segment can be.
Drives == {"C:"}
HasDrive(path) == windows /\ path # <<>> /\ path[1] \in Drives

\* Path::components(): a drive at the start is a Prefix (Windows only), a
\* separator at the start or right after the drive is RootDir, "." is
\* CurDir only as the first segment of a path without root and is skipped
\* elsewhere, ".." is ParentDir, empty segments are skipped, the rest is
\* Normal.
RECURSIVE ComponentsFrom(_, _)
ComponentsFrom(path, k) ==
  IF k > Len(path) THEN <<>>
  ELSE LET seg == path[k]
           rest == ComponentsFrom(path, k + 1)
           first == k = 1 \/ (k = 2 /\ HasDrive(path))
       IN  IF k = 1 /\ HasDrive(path) THEN <<[kind |-> "Prefix", name |-> seg]>> \o rest
           ELSE IF seg = "/" /\ first THEN <<[kind |-> "RootDir", name |-> "/"]>> \o rest
           ELSE IF seg = "." /\ first THEN <<[kind |-> "CurDir", name |-> "."]>> \o rest
           ELSE IF seg = "." \/ seg = "" \/ seg = "/" THEN rest
           ELSE IF seg = ".." THEN <<[kind |-> "ParentDir", name |-> ".."]>> \o rest
           ELSE <<[kind |-> "Normal", name |-> seg]>> \o rest

Components(path) == ComponentsFrom(path, 1)

\* PathBuf::push: an argument with a root replaces the buffer but for its
\* drive, an argument with a drive prefix replaces it whole, anything else
\* is appended as one more segment.
Push(dest, seg) ==
  IF seg = "/" THEN (IF HasDrive(dest) THEN <<dest[1], "/">> ELSE <<"/">>)
  ELSE IF windows /\ seg \in Drives THEN <<seg>>
  ELSE Append(dest, seg)

\* lines 18-24 with the ".." arm lost
relpath_push_drop_up(dest, c) ==
  CASE c.kind = "Prefix" -> dest
    [] c.kind = "RootDir" -> Push(dest, "_root_")
    [] c.kind = "CurDir" -> dest
    [] c.kind = "ParentDir" -> dest
    [] OTHER -> Push(dest, c.name)

\* lines 18-24: what one component adds to the target
relpath_push(dest, c) ==
  CASE c.kind = "Prefix" -> dest
    [] c.kind = "RootDir" -> Push(dest, "_root_")
    [] c.kind = "CurDir" -> dest
    [] c.kind = "ParentDir" -> Push(dest, "_up_")
    [] OTHER -> Push(dest, c.name)

RECURSIVE RelpathFold(_, _)
RelpathFold(dest, comps) ==
  IF comps = <<>> THEN dest
  ELSE RelpathFold(relpath_push(dest, Head(comps)), Tail(comps))

resource_relpath(path) == RelpathFold(<<>>, Components(path))

\* lines 32-38: what one component adds to the normalized source path
normalize_push(dest, c) ==
  CASE c.kind = "Prefix" -> dest
    [] c.kind = "RootDir" -> Push(dest, "/")
    [] c.kind = "CurDir" -> dest
    [] c.kind = "ParentDir" -> Push(dest, "..")
    [] OTHER -> Push(dest, c.name)

RECURSIVE NormalizeFold(_, _)
NormalizeFold(dest, comps) ==
  IF comps = <<>> THEN dest
  ELSE NormalizeFold(normalize_push(dest, Head(comps)), Tail(comps))

normalize(path) == NormalizeFold(<<>>, Components(path))

\* Path::file_name(): the last component when it is a Normal one.
file_name(path) ==
  LET c == Components(path)
  IN  IF c # <<>> /\ c[Len(c)].kind = "Normal" THEN Some(c[Len(c)].name) ELSE None

\* ------------------------------------------------------------ filesystem
\* The filesystem the iterator reads (Path::is_dir, WalkDir, glob::glob):
\* fixed and unchanging. Nodes are named by their segments below the root.
\*   /w            the working directory
\*   /w/a          file
\*   /w/d/x        file        /w/d/s/y   file
\*   /w/e/g        empty directory
\*   /w/k/p        unreadable directory     /w/k/r   file
\*   /u/z          file
Cwd == <<"w">>
Dirs == { <<>>, <<"w">>, <<"u">>, <<"w", "d">>, <<"w", "d", "s">>, <<"w", "e">>,
          <<"w", "e", "g">>, <<"w", "k">>, <<"w", "k", "p">> }
Files == { <<"w", "a">>, <<"w", "d", "x">>, <<"w", "d", "s", "y">>,
           <<"w", "k", "r">>, <<"u", "z">> }
Unreadable == { <<"w", "k", "p">> }
NameOrder == <<"a", "d", "e", "g", "k", "p", "r", "s", "u", "w", "x", "y", "z">>

NotFound == <<"?">>

Front(seq) == SubSeq(seq, 1, Len(seq) - 1)

RECURSIVE Reverse(_)
Reverse(seq) == IF seq = <<>> THEN <<>> ELSE Append(Reverse(Tail(seq)), Head(seq))

\* One step of path lookup from a node.
Step(node, c) ==
  IF node \notin Dirs THEN NotFound
  ELSE CASE c.kind = "RootDir" -> <<>>
         [] c.kind = "CurDir" -> node
         [] c.kind = "Prefix" -> node
         [] c.kind = "ParentDir" -> IF node = <<>> THEN <<>> ELSE Front(node)
         [] OTHER -> IF Append(node, c.name) \in Dirs \cup Files
                     THEN Append(node, c.name) ELSE NotFound

RECURSIVE ResolveFrom(_, _)
ResolveFrom(node, comps) ==
  IF comps = <<>> THEN node ELSE ResolveFrom(Step(node, Head(comps)), Tail(comps))

Resolve(path) == ResolveFrom(Cwd, Components(path))

\* line 175 with is_file called in place of is_dir
is_dir_is_file(path) == Resolve(path) \in Files

is_dir(path) == Resolve(path) \in Dirs

\* Names of the entries of a directory, in lexicographic order.
Children(node) == SelectSeq(NameOrder, LAMBDA n : Append(node, n) \in Dirs \cup Files)

\* ----------------------------------------------------------------- state
VARIABLES
  pattern_iter,   \* PatternIter: [kind, items, pos], items[i] = [pattern, dest]
  allow_walk,     \* ResourcePathsIter.allow_walk
  current_path,   \* Option<PathBuf>, with the index of the pattern it came from
  current_dest,   \* Option<&str>
  walk_iter,      \* Option<walkdir::IntoIter>: the entries still to come
  glob_iter,      \* Option<glob::Paths>: the matches still to come
  readdir_rev,    \* the order in which the OS lists a directory
  inserted,       \* the patterns in the order the caller supplied them
  yielded,        \* every Some(item) returned by next() so far
  ended,          \* number of next() calls that returned None
  paths_yielded,  \* every Some(item) returned by ResourcePaths::next so far
  call            \* a call of one of the free functions: [op, arg, out, again]

vars == <<windows, pattern_iter, allow_walk, current_path, current_dest, walk_iter,
          glob_iter, readdir_rev, inserted, yielded, ended, paths_yielded, call>>

\* --------------------------------------------------------------- walkdir
ReadDir(node) == IF readdir_rev THEN Reverse(Children(node)) ELSE Children(node)

\* WalkDir::new(path).into_iter(): the root itself, then every entry below
\* it depth first; a directory that cannot be read yields one error after
\* its own entry. Each entry is [ok, path].
RECURSIVE WalkFrom(_, _), WalkChildren(_, _, _)
WalkFrom(path, node) ==
  <<[ok |-> TRUE, path |-> path]>> \o
    ( IF node \notin Dirs THEN <<>>
      ELSE IF node \in Unreadable THEN <<[ok |-> FALSE, path |-> path]>>
      ELSE WalkChildren(path, node, ReadDir(node)) )
WalkChildren(path, node, names) ==
  IF names = <<>> THEN <<>>
  ELSE WalkFrom(Append(path, Head(names)), Append(node, Head(names)))
         \o WalkChildren(path, node, Tail(names))

WalkDir(path) == WalkFrom(path, Resolve(path))

\* ------------------------------------------------------------------ glob
StarSegs == {"*", "***"}
\* pattern.contains('*')
contains_star(pattern) == \E k \in 1..Len(pattern) : pattern[k] \in StarSegs
\* lines 229-232 with the syntax error of glob::glob ignored
valid_glob_lenient(pattern) == TRUE

\* glob::Pattern::new rejects a run of three wildcards
valid_glob(pattern) == \A k \in 1..Len(pattern) : pattern[k] # "***"

\* glob::Paths for a valid pattern: the matches in lexicographic order,
\* an error entry for a directory that cannot be listed.
RECURSIVE GlobFrom(_, _, _, _), GlobChildren(_, _, _, _, _)
GlobFrom(pattern, k, path, node) ==
  IF k > Len(pattern) THEN <<[ok |-> TRUE, path |-> path]>>
  ELSE LET seg == pattern[k]
       IN  IF node \notin Dirs THEN <<>>
           ELSE IF seg \in {".", ".."}
             THEN GlobFrom(pattern, k + 1, Append(path, seg),
                           Step(node, IF seg = "." THEN [kind |-> "CurDir", name |-> "."]
                                      ELSE [kind |-> "ParentDir", name |-> ".."]))
           ELSE IF seg = "*"
             THEN IF node \in Unreadable THEN <<[ok |-> FALSE, path |-> path]>>
                  ELSE GlobChildren(pattern, k, path, node, Children(node))
           ELSE IF Append(node, seg) \in Dirs \cup Files
             THEN GlobFrom(pattern, k + 1, Append(path, seg), Append(node, seg))
           ELSE <<>>
GlobChildren(pattern, k, path, node, names) ==
  IF names = <<>> THEN <<>>
  ELSE GlobFrom(pattern, k + 1, Append(path, Head(names)), Append(node, Head(names)))
         \o GlobChildren(pattern, k, path, node, Tail(names))

glob(pattern) ==
  IF ~valid_glob(pattern) THEN [ok |-> FALSE, paths |-> <<>>]
  ELSE [ok |-> TRUE,
        paths |-> IF pattern # <<>> /\ pattern[1] = "/"
                  THEN GlobFrom(pattern, 2, <<"/">>, <<>>)
                  ELSE GlobFrom(pattern, 1, <<>>, Cwd)]

\* ----------------------------------------------------- ResourcePathsIter
\* An item of the sequence: Ok(Resource{path, target}) or Err(err); pat is
\* the index of the pattern whose expansion produced it. A failed unwrap
\* is the item of kind "Panic".
OkItem(path, target, pat) ==
  [kind |-> "Ok", err |-> "", path |-> path, target |-> target, pat |-> pat]
ErrItem(err, path, pat) ==
  [kind |-> "Err", err |-> err, path |-> path, target |-> <<>>, pat |-> pat]
PanicItem == [kind |-> "Panic", err |-> "unwrap", path |-> <<>>, target |-> <<>>, pat |-> 0]

Ret(s, r) == [s |-> s, r |-> r]

\* line 177 with the negation lost
walk_denied_negation_lost(dir) == dir /\ allow_walk

\* line 177: a directory met without the permission to walk
walk_denied(dir) == dir /\ ~allow_walk

\* lines 182-184 with the creation of the walk forgotten
init_walk_iter_forgets(w, path, src) == w

\* lines 182-184: the walk is created only when there is none yet
init_walk_iter(w, path, src) ==
  IF ~w.some THEN Some([rest |-> WalkDir(path), owner |-> src]) ELSE w

\* lines 192-203: the target of a non-directory entry
resource_target(dest, path) ==
  IF dest.some
  THEN IF dest.v = <<>> /\ file_name(path).some
       THEN <<file_name(path).v>>
       ELSE dest.v
  ELSE resource_relpath(path)

\* lines 216/220: the next element of the pattern cursor
cursor_next(it) == IF it.pos < Len(it.items) THEN Some(it.items[it.pos + 1]) ELSE None

RECURSIVE next_glob_iter(_), next_walk_iter(_), next_current_path(_),
          next_pattern(_), next(_)

next_glob_iter(s) ==
  IF ~s.glob_iter.some THEN Ret(s, Some(PanicItem))
  ELSE LET it == s.glob_iter.v
       IN  IF it.rest = <<>> THEN Ret(s, None)
           ELSE LET entry == Head(it.rest)
                    s1 == [s EXCEPT !.glob_iter = Some([it EXCEPT !.rest = Tail(it.rest)])]
                IN  IF ~entry.ok
                    THEN Ret(s1, Some(ErrItem("Glob", entry.path, it.owner)))
                    ELSE next_current_path(
                           [s1 EXCEPT !.current_path =
                              Some([path |-> normalize(entry.path), src |-> it.owner])])

next_walk_iter(s) ==
  IF ~s.walk_iter.some THEN Ret(s, Some(PanicItem))
  ELSE LET it == s.walk_iter.v
       IN  IF it.rest = <<>> THEN Ret(s, None)
           ELSE LET entry == Head(it.rest)
                    s1 == [s EXCEPT !.walk_iter = Some([it EXCEPT !.rest = Tail(it.rest)])]
                IN  IF ~entry.ok
                    THEN Ret(s1, Some(ErrItem("WalkDir", entry.path, it.owner)))
                    ELSE next_current_path(
                           [s1 EXCEPT !.current_path =
                              Some([path |-> normalize(entry.path), src |-> it.owner])])

\* lines 186-189 with the end of the walk returned instead of resuming next()
next_current_path_no_resume(s) ==
  IF ~s.current_path.some THEN Ret(s, Some(PanicItem))
  ELSE LET path == s.current_path.v.path
           src == s.current_path.v.src
           s1 == [s EXCEPT !.current_path = None]
           dir == is_dir(path)
       IN  IF walk_denied(dir)
           THEN Ret(s1, Some(ErrItem("NotAllowedToWalkDir", path, src)))
           ELSE IF dir
           THEN next_walk_iter([s1 EXCEPT !.walk_iter = init_walk_iter(s1.walk_iter, path, src)])
           ELSE Ret(s1, Some(OkItem(path, resource_target(s1.current_dest, path), src)))

next_current_path(s) ==
  IF ~s.current_path.some THEN Ret(s, Some(PanicItem))
  ELSE LET path == s.current_path.v.path
           src == s.current_path.v.src
           s1 == [s EXCEPT !.current_path = None]
           dir == is_dir(path)
       IN  IF walk_denied(dir)
           THEN Ret(s1, Some(ErrItem("NotAllowedToWalkDir", path, src)))
           ELSE IF dir
           THEN LET s2 == [s1 EXCEPT !.walk_iter = init_walk_iter(s1.walk_iter, path, src)]
                    w == next_walk_iter(s2)
                IN  IF w.r.some THEN w ELSE next(w.s)
           ELSE Ret(s1, Some(OkItem(path, resource_target(s1.current_dest, path), src)))

next_pattern(s) ==
  LET s1 == [s EXCEPT !.current_dest = None, !.current_path = None]
      nx == cursor_next(s1.pattern_iter)
  IN  IF ~nx.some THEN Ret(s1, None)
      ELSE LET i == s1.pattern_iter.pos + 1
               pattern == nx.v.pattern
               s2 == [s1 EXCEPT !.pattern_iter.pos = i,
                                !.current_dest = IF s1.pattern_iter.kind = "Map"
                                                 THEN Some(nx.v.dest) ELSE None]
               literal(t) == next_current_path(
                  [t EXCEPT !.current_path = Some([path |-> normalize(pattern), src |-> i])])
           IN  IF contains_star(pattern)
               THEN LET g == glob(pattern)
                    IN  IF ~g.ok THEN Ret(s2, Some(ErrItem("GlobPattern", pattern, i)))
                        ELSE LET s3 == [s2 EXCEPT !.glob_iter =
                                          Some([rest |-> g.paths, owner |-> i])]
                                 r == next_glob_iter(s3)
                             IN  IF r.r.some THEN r ELSE literal(r.s)
               ELSE literal(s2)

\* lines 255-275 with the next pattern read before the open walk and glob
next_pattern_first(s) ==
  IF s.current_path.some THEN next_current_path(s)
  ELSE LET p == next_pattern(s)
       IN  IF p.r.some THEN p
           ELSE LET a == IF p.s.walk_iter.some THEN next_walk_iter(p.s) ELSE Ret(p.s, None)
                IN  IF a.r.some THEN a
                    ELSE IF a.s.glob_iter.some THEN next_glob_iter(a.s) ELSE Ret(a.s, None)

next(s) ==
  IF s.current_path.some THEN next_current_path(s)
  ELSE LET a == IF s.walk_iter.some THEN next_walk_iter(s) ELSE Ret(s, None)
       IN  IF a.r.some THEN a
           ELSE LET b == IF a.s.glob_iter.some THEN next_glob_iter(a.s) ELSE Ret(a.s, None)
                IN  IF b.r.some THEN b ELSE next_pattern(b.s)

\* ------------------------------------------------------------- the inputs
Patterns ==
  { <<"a">>, <<"d">>, <<"e">>, <<"..", "u">>, <<"*">>, <<"a", "*">>, <<"e", "*">>,
    <<"***">>, <<"/", "u", ".", "z">>, <<"k">>, <<"k", "p", "*">> }
MapPatterns == { <<"a">>, <<"d">>, <<"*">>, <<"e", "*">>, <<"***">> }
Targets == { <<>>, <<"T">>, <<"..", "x">> }

SeqsUpTo(S, n) == UNION { [1..m -> S] : m \in 0..n }
\* ResourcePaths::new
new(patterns, walk) ==
  /\ pattern_iter = [kind |-> "Slice", pos |-> 0,
                     items |-> [i \in 1..Len(patterns) |->
                                  [pattern |-> patterns[i], dest |-> <<>>]]]
  /\ inserted = pattern_iter.items
  /\ allow_walk = walk
  /\ current_path = None /\ current_dest = None
  /\ walk_iter = None /\ glob_iter = None

\* ResourcePaths::from_map: a HashMap has unique keys and iterates in an
\* order of its own, here the order of insertion or its reverse.
HashOrders(entries) == { entries, Reverse(entries) }

from_map(entries, order, walk) ==
  /\ pattern_iter = [kind |-> "Map", pos |-> 0, items |-> order]
  /\ inserted = entries
  /\ allow_walk = walk
  /\ current_path = None /\ current_dest = None
  /\ walk_iter = None /\ glob_iter = None

MapEntries ==
  { e \in SeqsUpTo([pattern : MapPatterns, dest : Targets], MaxMapLen) :
      \A i, j \in 1..Len(e) : i # j => e[i].pattern # e[j].pattern }

NoCall == [op |-> "none", arg |-> <<>>, out |-> <<>>, again |-> <<>>]

\* The filesystem of the model is a Unix one; no free function is called.
Init ==
  /\ windows = FALSE
  /\ call = NoCall
  /\ paths_yielded = <<>>
  /\ readdir_rev \in BOOLEAN
  /\ yielded = <<>>
  /\ ended = 0
  /\ \E walk \in BOOLEAN :
       \/ \E patterns \in SeqsUpTo(Patterns, MaxPatterns) : new(patterns, walk)
       \/ \E entries \in MapEntries :
            \E order \in HashOrders(entries) : from_map(entries, order, walk)

\* The iterator as one record.
Self ==
  [pattern_iter |-> pattern_iter, current_path |-> current_path,
   current_dest |-> current_dest, walk_iter |-> walk_iter, glob_iter |-> glob_iter]

\* One call of ResourcePathsIter::next.
Next_call ==
  /\ ended < MaxAfterEnd
  /\ \A k \in 1..Len(yielded) : yielded[k].kind # "Panic"
  /\ LET out == next(Self)
     IN  /\ pattern_iter' = out.s.pattern_iter
         /\ current_path' = out.s.current_path
         /\ current_dest' = out.s.current_dest
         /\ walk_iter' = out.s.walk_iter
         /\ glob_iter' = out.s.glob_iter
         /\ IF out.r.some
            THEN /\ yielded' = Append(yielded,
                       [kind |-> out.r.v.kind, err |-> out.r.v.err, path |-> out.r.v.path,
                        target |-> out.r.v.target, pat |-> out.r.v.pat,
                        read |-> out.s.pattern_iter.pos, after_end |-> ended > 0,
                        dest |-> out.s.current_dest])
                 /\ ended' = ended
            ELSE /\ yielded' = yielded
                 /\ ended' = ended + 1
  /\ UNCHANGED <<windows, allow_walk, readdir_rev, inserted, paths_yielded, call>>

Next == Next_call

Spec == Init /\ [][Next]_vars

\* ------------------------------------------ ResourcePaths as an iterator
\* line 248 with the target handed out in place of the path
paths_item_target(r) ==
  IF r.kind = "Ok" THEN [kind |-> "Ok", err |-> "", path |-> r.target]
  ELSE [kind |-> r.kind, err |-> r.err, path |-> r.path]

\* line 248: r.map(|res| res.path), an error passes through
paths_item(r) ==
  IF r.kind = "Ok" THEN [kind |-> "Ok", err |-> "", path |-> r.path]
  ELSE [kind |-> r.kind, err |-> r.err, path |-> r.path]

\* One call of ResourcePaths::next.
Paths_next ==
  /\ ended < MaxAfterEnd
  /\ \A k \in 1..Len(paths_yielded) : paths_yielded[k].kind # "Panic"
  /\ LET out == next(Self)
     IN  /\ pattern_iter' = out.s.pattern_iter
         /\ current_path' = out.s.current_path
         /\ current_dest' = out.s.current_dest
         /\ walk_iter' = out.s.walk_iter
         /\ glob_iter' = out.s.glob_iter
         /\ IF out.r.some
            THEN /\ paths_yielded' = Append(paths_yielded, paths_item(out.r.v))
                 /\ ended' = ended
            ELSE /\ paths_yielded' = paths_yielded
                 /\ ended' = ended + 1
  /\ UNCHANGED <<windows, allow_walk, readdir_rev, inserted, yielded, call>>

PathsNext == Paths_next

\* The ResourcePaths is iterated directly, iter() is never called.
PathsSpec == Init /\ [][PathsNext]_vars

\* ------------------------------------------------------ the free functions
MaxPathLen == 3
PathSegs == {"/", ".", "..", "a", "C:"}
PathArgs == SeqsUpTo(PathSegs, MaxPathLen)

\* No iterator is in use; a path is about to be handed to a path function
\* of a Unix or a Windows build.
FnInit ==
  /\ windows \in BOOLEAN
  /\ \E path \in PathArgs : call = [NoCall EXCEPT !.arg = path]
  /\ new(<<>>, FALSE)
  /\ readdir_rev = FALSE
  /\ yielded = <<>> /\ paths_yielded = <<>> /\ ended = 0

IterVars == <<pattern_iter, allow_walk, current_path, current_dest, walk_iter,
              glob_iter, readdir_rev, inserted, yielded, ended, paths_yielded>>

\* resource_relpath(path), and again on its own result
Call_resource_relpath ==
  /\ call.op = "none"
  /\ call' = [op |-> "resource_relpath", arg |-> call.arg,
              out |-> resource_relpath(call.arg),
              again |-> resource_relpath(resource_relpath(call.arg))]
  /\ UNCHANGED <<windows, IterVars>>

\* normalize(path), and again on its own result
Call_normalize ==
  /\ call.op = "none"
  /\ call' = [op |-> "normalize", arg |-> call.arg,
              out |-> normalize(call.arg),
              again |-> normalize(normalize(call.arg))]
  /\ UNCHANGED <<windows, IterVars>>

FnNext == Call_resource_relpath \/ Call_normalize

FnSpec == FnInit /\ [][FnNext]_vars

\* ----------------------------------------------------- external_binaries
\* A String is the sequence of its pieces; '-' is a piece of its own.
MaxBins == 3
BinNames == { <<"app">>, <<"sidecar">>, <<"windows", "-", "helper">> }
Triples ==
  { <<"x86_64", "-", "pc", "-", "windows", "-", "msvc">>,
    <<"i686", "-", "pc", "-", "windows", "-", "gnu">>,
    <<"aarch64", "-", "apple", "-", "darwin">>,
    <<"x86_64", "-", "unknown", "-", "linux", "-", "gnu">> }

\* str::contains for a word that is a whole piece
str_contains(str, word) == \E k \in 1..Len(str) : str[k] = word

\* lines 47-56 with the binary's name tested in place of the triple
binary_name_tests_name(curr_path, target_triple) ==
  curr_path \o <<"-">> \o target_triple
    \o (IF str_contains(curr_path, "windows") THEN <<".exe">> ELSE <<>>)

\* lines 47-56: format!("{}-{}{}", curr_path, target_triple, suffix)
binary_name(curr_path, target_triple) ==
  curr_path \o <<"-">> \o target_triple
    \o (IF str_contains(target_triple, "windows") THEN <<".exe">> ELSE <<>>)

\* lines 44-59: one push per input, in input order
RECURSIVE external_binaries(_, _)
external_binaries(bins, target_triple) ==
  IF bins = <<>> THEN <<>>
  ELSE <<binary_name(Head(bins), target_triple)>>
         \o external_binaries(Tail(bins), target_triple)

BinInit ==
  /\ windows = FALSE
  /\ \E bins \in SeqsUpTo(BinNames, MaxBins), triple \in Triples :
       call = [NoCall EXCEPT !.arg = [bins |-> bins, triple |-> triple]]
  /\ new(<<>>, FALSE)
  /\ readdir_rev = FALSE
  /\ yielded = <<>> /\ paths_yielded = <<>> /\ ended = 0

Call_external_binaries ==
  /\ call.op = "none"
  /\ call' = [op |-> "external_binaries", arg |-> call.arg,
              out |-> external_binaries(call.arg.bins, call.arg.triple),
              again |-> <<>>]
  /\ UNCHANGED <<windows, IterVars>>

BinNext == Call_external_binaries

BinSpec == BinInit /\ [][BinNext]_vars

\* ------------------------------------------------- vocabulary of the claims
Done == ended > 0
NumPatterns == Len(pattern_iter.items)
PatternAt(i) == pattern_iter.items[i].pattern
DestAt(i) == pattern_iter.items[i].dest
Count(P(_)) == Cardinality({k \in 1..Len(yielded) : P(yielded[k])})
IsPrefix(a, b) == Len(a) <= Len(b) /\ SubSeq(b, 1, Len(a)) = a

\* The candidate source paths of a pattern: its glob matches, or itself.
Matches(pattern) ==
  LET g == glob(pattern).paths
  IN  { normalize(g[k].path) : k \in { j \in 1..Len(g) : g[j].ok } }
Candidates(i) ==
  IF contains_star(PatternAt(i))
  THEN IF valid_glob(PatternAt(i)) THEN Matches(PatternAt(i)) ELSE {}
  ELSE { normalize(PatternAt(i)) }

\* The files below a directory, as the paths a walk from it would name.
FilesBelow(dirpath) ==
  LET node == Resolve(dirpath)
  IN  { normalize(dirpath \o SubSeq(f, Len(node) + 1, Len(f))) :
          f \in { g \in Files : IsPrefix(node, g) } }
ReadableBelow(dirpath) == \A u \in Unreadable : ~IsPrefix(Resolve(dirpath), u)
NoFsError == \A k \in 1..Len(yielded) : yielded[k].err \notin {"WalkDir", "Glob"}

\* C1: with walk-permission true and no filesystem error, when the sequence
\* has ended every file below every candidate directory of every pattern
\* has been yielded exactly once as a Resource of that pattern.
C1_every_directory_walked ==
  (Done /\ allow_walk /\ NoFsError) =>
    \A i \in 1..NumPatterns : \A c \in Candidates(i) :
      (is_dir(c) /\ ReadableBelow(c)) =>
        \A f \in FilesBelow(c) :
          Count(LAMBDA it : it.kind = "Ok" /\ it.pat = i /\ it.path = f) = 1

\* C2: items come out in pattern order, and every item comes from the
\* pattern most recently read from the pattern cursor.
C2_pattern_order ==
  /\ \A k, l \in 1..Len(yielded) : k < l => yielded[k].pat <= yielded[l].pat
  /\ \A k \in 1..Len(yielded) : yielded[k].pat = yielded[k].read

\* the first half of C2 alone: the items are in pattern order
C2_items_in_order ==
  \A k, l \in 1..Len(yielded) : k < l => yielded[k].pat <= yielded[l].pat

LiteralDir(i) == ~contains_star(PatternAt(i)) /\ is_dir(normalize(PatternAt(i)))

\* C3: with walk-permission false, when the sequence has ended a pattern
\* naming a directory has yielded exactly one item, the NotAllowedToWalkDir
\* error carrying the normalized directory path.
C3_directory_not_allowed ==
  (Done /\ ~allow_walk) =>
    \A i \in 1..NumPatterns :
      LiteralDir(i) =>
        /\ Count(LAMBDA it : it.pat = i) = 1
        /\ Count(LAMBDA it : it.pat = i /\ it.kind = "Err"
                               /\ it.err = "NotAllowedToWalkDir"
                               /\ it.path = normalize(PatternAt(i))) = 1

C3_witness ==
  /\ Done /\ ~allow_walk /\ NumPatterns >= 2
  /\ \E i \in 1..NumPatterns :
       /\ LiteralDir(i)
       /\ \E k \in 1..Len(yielded) :
            yielded[k].pat = i /\ yielded[k].err = "NotAllowedToWalkDir"
  /\ \E k \in 1..Len(yielded) : yielded[k].kind = "Ok"

\* C4: once an error has been yielded from a pattern, every later item
\* comes from a later pattern.
C4_error_ends_pattern ==
  \A k, l \in 1..Len(yielded) :
    (k < l /\ yielded[k].kind = "Err") => yielded[l].pat > yielded[k].pat

\* The whole sequence a fresh iterator over the given patterns yields.
RECURSIVE Drain(_, _)
Drain(s, fuel) ==
  LET out == next(s)
  IN  IF fuel = 0 \/ ~out.r.some THEN <<>>
      ELSE <<out.r.v>> \o Drain(out.s, fuel - 1)
MaxItems == 64
RunOf(items) ==
  Drain([pattern_iter |-> [kind |-> pattern_iter.kind, pos |-> 0, items |-> items],
         current_path |-> None, current_dest |-> None,
         walk_iter |-> None, glob_iter |-> None], MaxItems)
RemoveAt(seq, i) == SubSeq(seq, 1, i - 1) \o SubSeq(seq, i + 1, Len(seq))
Resources(seq) == [k \in 1..Len(seq) |-> <<seq[k].path, seq[k].target>>]

\* C5: when the sequence has ended every pattern has been read, and for
\* every error yielded from a pattern i the Resources of the patterns after
\* i are those the same patterns yield when pattern i is left out.
C5_error_does_not_disturb_later ==
  Done =>
    /\ pattern_iter.pos = NumPatterns
    /\ \A k \in 1..Len(yielded) :
         yielded[k].kind = "Err" =>
           LET i == yielded[k].pat
           IN  Resources(SelectSeq(yielded, LAMBDA it : it.kind = "Ok" /\ it.pat > i))
                 = Resources(SelectSeq(RunOf(RemoveAt(pattern_iter.items, i)),
                                       LAMBDA it : it.kind = "Ok" /\ it.pat >= i))

ValidGlob(i) == contains_star(PatternAt(i)) /\ valid_glob(PatternAt(i))
FileMatches(pattern) ==
  LET g == glob(pattern).paths
      f == SelectSeq(g, LAMBDA e : e.ok /\ ~is_dir(normalize(e.path)))
  IN  [k \in 1..Len(f) |-> normalize(f[k].path)]

\* C6: when the sequence has ended, the Resources of a valid glob pattern
\* are its matches or files below its matched directories, its matched
\* files appear once each in glob order, and the pattern text is never a
\* source path.
C6_glob_yields_only_matches ==
  Done =>
    \A i \in 1..NumPatterns :
      ValidGlob(i) =>
        LET mine == SelectSeq(yielded, LAMBDA it : it.kind = "Ok" /\ it.pat = i)
            direct == SelectSeq(mine, LAMBDA it : it.path \in Candidates(i))
        IN  /\ \A k \in 1..Len(mine) :
                 /\ \E c \in Candidates(i) : mine[k].path = c \/ mine[k].path \in FilesBelow(c)
                 /\ mine[k].path # normalize(PatternAt(i))
            /\ [k \in 1..Len(direct) |-> direct[k].path] = FileMatches(PatternAt(i))

PlainRelative(path) ==
  \A k \in 1..Len(Components(path)) : Components(path)[k].kind = "Normal"

\* C7: the target of every Resource yielded is a relative path of named
\* segments only.
C7_target_is_plain_relative ==
  \A k \in 1..Len(yielded) : yielded[k].kind = "Ok" => PlainRelative(yielded[k].target)

\* C8: in mapping form every Resource of a pattern with a non-empty
\* explicit target T has target T.
C8_override_is_target ==
  pattern_iter.kind = "Map" =>
    \A k \in 1..Len(yielded) :
      (yielded[k].kind = "Ok" /\ DestAt(yielded[k].pat) # <<>>) =>
        yielded[k].target = DestAt(yielded[k].pat)

\* C9: in mapping form every Resource of a pattern with the empty explicit
\* target has as target the last segment of its source path.
C9_empty_override_flattens ==
  pattern_iter.kind = "Map" =>
    \A k \in 1..Len(yielded) :
      (yielded[k].kind = "Ok" /\ DestAt(yielded[k].pat) = <<>>) =>
        /\ yielded[k].path # <<>>
        /\ yielded[k].target = <<yielded[k].path[Len(yielded[k].path)]>>

\* The target the list form documents for a normalized source path: the
\* root becomes _root_, each ".." becomes _up_, names stay.
ListTarget(path) ==
  [k \in 1..Len(path) |-> CASE path[k] = "/" -> "_root_"
                            [] path[k] = ".." -> "_up_"
                            [] OTHER -> path[k]]

\* C10: in list form every Resource has a source-normalized path (".."
\* kept, no ".") and as target that path with its root turned into _root_
\* and each ".." into _up_, which is resource_relpath of the path.
C10_list_target_is_relpath ==
  pattern_iter.kind = "Slice" =>
    \A k \in 1..Len(yielded) :
      yielded[k].kind = "Ok" =>
        /\ yielded[k].path = normalize(yielded[k].path)
        /\ \A j \in 1..Len(yielded[k].path) : yielded[k].path[j] # "."
        /\ yielded[k].target = ListTarget(yielded[k].path)
        /\ yielded[k].target = resource_relpath(yielded[k].path)

C10_witness ==
  /\ pattern_iter.kind = "Slice" /\ Done
  /\ \E k \in 1..Len(yielded) :
       /\ yielded[k].kind = "Ok"
       /\ yielded[k].path = <<"..", "u", "z">>
       /\ yielded[k].target = <<"_up_", "u", "z">>
  /\ \E k \in 1..Len(yielded) :
       /\ yielded[k].kind = "Ok"
       /\ yielded[k].path = <<"/", "u", "z">>
       /\ yielded[k].target = <<"_root_", "u", "z">>

\* The place of a pattern in the order the caller inserted the entries.
InsertedPos(pattern) ==
  CHOOSE i \in 1..Len(inserted) : inserted[i].pattern = pattern

InvalidGlob(i) == \E k \in 1..Len(PatternAt(i)) : PatternAt(i)[k] = "***"

\* C12: when the sequence has ended, a pattern with '*' that is not a valid
\* glob has yielded exactly one item, the pattern-syntax error, and every
\* pattern after it has been read.
C12_invalid_glob_one_error ==
  Done =>
    /\ pattern_iter.pos = NumPatterns
    /\ \A i \in 1..NumPatterns :
         InvalidGlob(i) =>
           /\ Count(LAMBDA it : it.pat = i) = 1
           /\ Count(LAMBDA it : it.pat = i /\ it.kind = "Err" /\ it.err = "GlobPattern") = 1

C12_witness ==
  /\ Done /\ NumPatterns = 2 /\ InvalidGlob(1)
  /\ Len(yielded) >= 2
  /\ yielded[1].err = "GlobPattern" /\ yielded[1].pat = 1
  /\ yielded[2].kind = "Ok" /\ yielded[2].pat = 2

\* No more items than the patterns can name: each pattern yields at most one
\* item per filesystem entry, or one for itself.
MaxYield == NumPatterns * (Cardinality(Dirs \cup Files) + 1)

\* C13: every call of next() returns; at most MaxYield of them return an
\* item, so None comes after finitely many items, and no item is ever
\* returned after a None.
C13_ends_and_stays_ended ==
  /\ Len(yielded) <= MaxYield
  /\ \A k \in 1..Len(yielded) : ~yielded[k].after_end

C13_witness ==
  /\ ended >= 2
  /\ Len(yielded) >= 3

\* The override the pattern of an item was given.
OwnDest(it) ==
  IF pattern_iter.kind = "Map" THEN Some(DestAt(it.pat)) ELSE None

\* C18: the destination override in effect when an item is produced is the
\* one of the item's own pattern (none in list form), and the target of a
\* Resource is computed from that override and nothing else.
C18_override_scoped_to_pattern ==
  \A k \in 1..Len(yielded) :
    yielded[k].kind # "Panic" =>
      /\ yielded[k].dest = OwnDest(yielded[k])
      /\ yielded[k].kind = "Ok" =>
           yielded[k].target = resource_target(OwnDest(yielded[k]), yielded[k].path)

\* C19: no Resource yielded has a directory as its source path.
C19_no_directory_emitted ==
  \A k \in 1..Len(yielded) :
    yielded[k].kind = "Ok" => Resolve(yielded[k].path) \notin Dirs

C19_witness ==
  /\ Done /\ allow_walk
  /\ \E i \in 1..NumPatterns :
       /\ PatternAt(i) = <<"*">>
       /\ \E k \in 1..Len(yielded) :
            yielded[k].pat = i /\ yielded[k].kind = "Ok" /\ yielded[k].path = <<"d", "s", "y">>
  /\ \E i \in 1..NumPatterns : LiteralDir(i)

\* C20: no call of next() fails an unwrap, and current_path is empty
\* whenever next() has returned.
C20_no_unwrap_panic ==
  /\ \A k \in 1..Len(yielded) : yielded[k].kind # "Panic"
  /\ current_path = None

C20_witness ==
  /\ Done /\ walk_iter.some /\ glob_iter.some
  /\ \E k \in 1..Len(yielded) : yielded[k].kind = "Ok" /\ Len(yielded[k].path) = 1
  /\ \E k \in 1..Len(yielded) : yielded[k].kind = "Ok" /\ Len(yielded[k].path) > 1

\* What the path view owes for an item of ResourcePathsIter.
PathOf(it) ==
  [kind |-> it.kind, err |-> it.err, path |-> it.path]

\* C17: what ResourcePaths::next has yielded so far is, item for item, the
\* path (or the error) of what a ResourcePathsIter over the same input
\* yields, and it ends where that sequence ends.
C17_paths_view_matches_iter ==
  LET full == RunOf(pattern_iter.items)
  IN  /\ Len(paths_yielded) <= Len(full)
      /\ paths_yielded = [k \in 1..Len(paths_yielded) |-> PathOf(full[k])]
      /\ Done => Len(paths_yielded) = Len(full)

C17_witness ==
  /\ Done /\ yielded = <<>> /\ Len(paths_yielded) >= 2
  /\ \E k \in 1..Len(paths_yielded) : paths_yielded[k].kind = "Err"
  /\ \E k \in 1..Len(paths_yielded) :
       paths_yielded[k].kind = "Ok" /\ paths_yielded[k].path = <<"..", "u", "z">>

\* What one component owes to the target: a sentinel, its name, or nothing.
Sentinel(c) ==
  CASE c.kind = "RootDir" -> <<"_root_">>
    [] c.kind = "ParentDir" -> <<"_up_">>
    [] c.kind = "Normal" -> <<c.name>>
    [] OTHER -> <<>>
RECURSIVE Sentinels(_)
Sentinels(comps) ==
  IF comps = <<>> THEN <<>> ELSE Sentinel(Head(comps)) \o Sentinels(Tail(comps))

\* C14: resource_relpath gives, in input order, _root_ for the root, _up_
\* for each "..", nothing for "." and the drive prefix and each name
\* unchanged, and its result has no ".", no ".." and no root or prefix.
C14_sentinels ==
  call.op = "resource_relpath" =>
    /\ call.out = Sentinels(Components(call.arg))
    /\ \A k \in 1..Len(call.out) : call.out[k] \notin {".", "..", "/"}
    /\ PlainRelative(call.out)

\* C14 on a build without drive prefixes
C14_sentinels_unix ==
  ~windows => C14_sentinels

\* C15: normalize and resource_relpath are idempotent.
C15_idempotent ==
  call.op \in {"normalize", "resource_relpath"} => call.again = call.out

\* C15 on a build without drive prefixes
C15_idempotent_unix ==
  ~windows => C15_idempotent

\* A target triple is arch-vendor-os(-env): its third field is the system.
DenotesWindows(triple) == Len(triple) >= 5 /\ triple[5] = "windows"

\* C16: external_binaries gives one name per input, in input order, each
\* the input, a '-', the triple, and ".exe" exactly for a Windows triple.
C16_suffixing ==
  call.op = "external_binaries" =>
    /\ Len(call.out) = Len(call.arg.bins)
    /\ \A i \in 1..Len(call.out) :
         call.out[i] = call.arg.bins[i] \o <<"-">> \o call.arg.triple
                         \o (IF DenotesWindows(call.arg.triple) THEN <<".exe">> ELSE <<>>)

C16_witness ==
  /\ call.op = "external_binaries"
  /\ call.arg.bins = <<<<"app">>, <<"sidecar">>>>
  /\ call.out = << <<"app", "-", "x86_64", "-", "pc", "-", "windows", "-", "msvc", ".exe">>,
                   <<"sidecar", "-", "x86_64", "-", "pc", "-", "windows", "-", "msvc", ".exe">> >>
====
